---- MODULE Spec2Model ----
(***************************************************************************)
(* Model of the striche-gateway generation pipeline:                       *)
(*   parse/normalize -> mapOpenApiToCanonical -> merge -> build context    *)
(*   -> overwrite guard -> render.                                         *)
(*                                                                         *)
(* Strings are sequences of tokens.  A token is an indivisible run of      *)
(* characters of one class: a lower-case alphanumeric atom ("auth"), an    *)
(* atom with upper-case letters ("Auth"), white space (" "), or a          *)
(* separator ("/", "-", "|", "://").  The empty string is <<>>.            *)
(***************************************************************************)
EXTENDS Integers, Sequences, FiniteSets, TLC

\* ------------------------------------------------------------------ bounds
\* at most MaxSpecs spec files are given on the command line
MaxSpecs == 2
\* a spec document declares at most MaxPaths paths
MaxPaths == 2

\* ------------------------------------------------------------ JS values
\* the JavaScript value undefined (no token string equals it)
Undefined == <<"#undefined">>

\* JavaScript truthiness of a string-or-undefined value
Truthy(v) == v # Undefined /\ v # <<>>

\* a || b on string-or-undefined values
OrElse(a, b) == IF Truthy(a) THEN a ELSE b

\* obj[key] on a Record<string, T> modelled as a function
Lookup(obj, key) == IF key \in DOMAIN obj THEN obj[key] ELSE Undefined

\* the empty object {}
EmptyObj == [k \in {} |-> Undefined]

\* ------------------------------------------------------- string library
\* per-token table of String.prototype.toLowerCase
LowerTok(t) ==
  CASE t = "Auth" -> "auth"
    [] t = "Svc" -> "svc"
    [] t = "Pay" -> "pay"
    [] t = "GET" -> "get"
    [] t = "Post" -> "post"
    [] OTHER -> t

ToLowerCase(s) == [i \in 1..Len(s) |-> LowerTok(s[i])]

\* per-token table of String.prototype.toUpperCase on the verb tokens
UpperTok(t) ==
  CASE t = "get" -> "GET"
    [] t = "post" -> "POST"
    [] t = "Post" -> "POST"
    [] t = "delete" -> "DELETE"
    [] OTHER -> t

ToUpperCase(s) == [i \in 1..Len(s) |-> UpperTok(s[i])]

\* tokens made of [a-z0-9] only
LowerAtoms ==
  {"auth", "svc", "pay", "admin", "users", "login", "charge", "h", "m", "g",
   "api", "https", "http", "get", "post", "delete", "root", "unknown"}

IsSpaceTok(t) == t = " "

\* s.replace(/\s+/g, "-"): every maximal run of white space becomes one "-"
RECURSIVE ReplaceSpaceRuns(_)
ReplaceSpaceRuns(s) ==
  IF s = <<>> THEN <<>>
  ELSE IF IsSpaceTok(Head(s))
       THEN IF Len(s) > 1 /\ IsSpaceTok(s[2])
            THEN ReplaceSpaceRuns(Tail(s))
            ELSE <<"-">> \o ReplaceSpaceRuns(Tail(s))
       ELSE <<Head(s)>> \o ReplaceSpaceRuns(Tail(s))

\* s.replace(/[^a-z0-9]+/g, "-"): every maximal run of other tokens becomes one "-"
RECURSIVE ReplaceNonAlnumRuns(_)
ReplaceNonAlnumRuns(s) ==
  IF s = <<>> THEN <<>>
  ELSE IF Head(s) \notin LowerAtoms
       THEN IF Len(s) > 1 /\ s[2] \notin LowerAtoms
            THEN ReplaceNonAlnumRuns(Tail(s))
            ELSE <<"-">> \o ReplaceNonAlnumRuns(Tail(s))
       ELSE <<Head(s)>> \o ReplaceNonAlnumRuns(Tail(s))

\* s.replace(/(^-|-$)/g, ""): one leading and one trailing "-" are removed
StripDashes(s) ==
  LET a == IF s # <<>> /\ Head(s) = "-" THEN Tail(s) ELSE s
  IN  IF a # <<>> /\ a[Len(a)] = "-" THEN SubSeq(a, 1, Len(a) - 1) ELSE a

\* s.split("/").filter(Boolean): the maximal runs of tokens other than "/"
RECURSIVE SplitSegments(_, _)
SplitSegments(s, cur) ==
  IF s = <<>> THEN (IF cur = <<>> THEN <<>> ELSE <<cur>>)
  ELSE IF Head(s) = "/"
       THEN (IF cur = <<>> THEN <<>> ELSE <<cur>>) \o SplitSegments(Tail(s), <<>>)
       ELSE SplitSegments(Tail(s), Append(cur, Head(s)))

\* arr[0] of an array of strings
First(arr) == IF arr = <<>> THEN Undefined ELSE arr[1]

\* new URL(url): absolute URLs parse, everything else throws
UrlParses(url) ==
  /\ Len(url) >= 3
  /\ url[1] \in {"https", "http"}
  /\ url[2] = "://"
  /\ url[3] \in LowerAtoms

\* new URL(url).pathname of an absolute URL
UrlPathname(url) == IF Len(url) > 3 THEN SubSeq(url, 4, Len(url)) ELSE <<"/">>

\* ------------------------------------------------------------ mapper ids
slug(s) == StripDashes(ReplaceNonAlnumRuns(ToLowerCase(s)))

\* sha1(s) cut to 8 hex digits, taken to be injective: the digest names its input
shortHash(s) == <<"sha1(">> \o s \o <<")">>

\* --------------------------------------------------------- JS objects
\* Object.keys order: obj[key] = val keeps the place of an existing key
RECURSIVE PutEntry(_, _, _)
PutEntry(entries, key, val) ==
  IF entries = <<>> THEN <<[key |-> key, op |-> val]>>
  ELSE IF Head(entries).key = key
       THEN <<[key |-> key, op |-> val]>> \o Tail(entries)
       ELSE <<Head(entries)>> \o PutEntry(Tail(entries), key, val)

\* /^(get|post|put|patch|delete|options|head)$/i.test(k)
IsVerbKey(k) ==
  ToLowerCase(k) \in {<<"get">>, <<"post">>, <<"put">>, <<"patch">>,
                      <<"delete">>, <<"options">>, <<"head">>}

\* ------------------------------------------------------------ normalizer
\* the placeholder server the normalizer adds when a document declares none
PlaceholderUrl == <<"${UPSTREAM_ROOT}">>

\* one path item: verb keys lower-cased, every other key copied
RECURSIVE NormalizeEntries(_, _)
NormalizeEntries(entries, acc) ==
  IF entries = <<>> THEN acc
  ELSE LET e == Head(entries)
           low == ToLowerCase(e.key)
       IN  NormalizeEntries(Tail(entries),
             IF IsVerbKey(low) THEN PutEntry(acc, low, e.op)
             ELSE PutEntry(acc, e.key, e.op))

NormalizePathItem(pathItem) ==
  [xService |-> pathItem.xService,
   entries |-> NormalizeEntries(pathItem.entries, <<>>)]

\* swagger 2: one server per scheme when a host is declared, else the placeholder
ServersV2(spec) ==
  LET host == OrElse(spec.host, <<>>)
      basePath == OrElse(spec.basePath, <<>>)
      schemes == IF spec.schemes = Undefined THEN <<<<"https">>, <<"http">>>>
                 ELSE spec.schemes
  IN  IF Truthy(host)
      THEN [i \in 1..Len(schemes) |-> schemes[i] \o <<"://">> \o host \o basePath]
      ELSE <<PlaceholderUrl>>

\* openapi 3: the declared servers, else the placeholder
ServersV3(spec) ==
  IF Len(spec.servers) > 0 THEN spec.servers ELSE <<PlaceholderUrl>>

IsSwagger2(spec) == spec.swagger # Undefined /\ Head(spec.swagger) = "2"
IsOpenApi3(spec) == spec.openapi # Undefined /\ Head(spec.openapi) = "3"

normalizeBundledSpec(bundled) ==
  [originalVersion |->
     IF IsSwagger2(bundled) THEN <<"2", ".", "0">>
     ELSE IF IsOpenApi3(bundled) THEN bundled.openapi ELSE <<"unknown">>,
   title |-> bundled.title,
   servers |->
     IF IsSwagger2(bundled) THEN ServersV2(bundled)
     ELSE IF IsOpenApi3(bundled) THEN ServersV3(bundled) ELSE <<PlaceholderUrl>>,
   paths |-> [i \in 1..Len(bundled.paths) |->
                [path |-> bundled.paths[i].path,
                 item |-> NormalizePathItem(bundled.paths[i].item)]],
   securitySchemes |->
     IF IsSwagger2(bundled) THEN bundled.securityDefinitions
     ELSE IF IsOpenApi3(bundled) THEN bundled.securitySchemes ELSE EmptyObj,
   raw |-> bundled]

\* ---------------------------------------------------------------- mapper
\* the entries of a path item whose key is an HTTP verb
RECURSIVE OpKeys(_)
OpKeys(entries) ==
  IF entries = <<>> THEN <<>>
  ELSE IF IsVerbKey(Head(entries).key)
       THEN <<Head(entries)>> \o OpKeys(Tail(entries))
       ELSE OpKeys(Tail(entries))

\* rule 1: path-level x-service
PathLevelService(pathItem) ==
  IF Truthy(pathItem.xService) THEN pathItem.xService ELSE Undefined

\* rule 2: x-service of the first operation that declares one
RECURSIVE FirstOpService(_)
FirstOpService(ops) ==
  IF ops = <<>> THEN Undefined
  ELSE IF Truthy(Head(ops).op.xService) THEN Head(ops).op.xService
       ELSE FirstOpService(Tail(ops))

OperationLevelService(pathItem) == FirstOpService(OpKeys(pathItem.entries))

\* rule 3: first path segment of api.servers[0].url
ServerSegmentService(api) ==
  IF Len(api.servers) > 0
  THEN LET url == OrElse(api.servers[1], <<>>)
       IN  IF UrlParses(url)
           THEN LET seg == First(SplitSegments(OrElse(UrlPathname(url), <<"/">>), <<>>))
                IN  IF Truthy(seg) THEN seg ELSE Undefined
           ELSE Undefined
  ELSE Undefined

\* rule 4: first tag of the first operation that declares tags
RECURSIVE FirstOpTag(_)
FirstOpTag(ops) ==
  IF ops = <<>> THEN Undefined
  ELSE IF Len(Head(ops).op.tags) > 0
       THEN ReplaceSpaceRuns(ToLowerCase(Head(ops).op.tags[1]))
       ELSE FirstOpTag(Tail(ops))

TagService(pathItem) == FirstOpTag(OpKeys(pathItem.entries))

\* rules 5 and 6: first segment of the path template, else "root"
PathSegmentService(rawPath) ==
  OrElse(First(SplitSegments(rawPath, <<>>)), <<"root">>)

\* a resolution that tries the tags before the server URL
ServiceNameTagFirst(api, rawPath, pathItem) ==
  LET n1 == PathLevelService(pathItem)
      n2 == IF ~Truthy(n1) THEN OperationLevelService(pathItem) ELSE n1
      n3 == IF ~Truthy(n2) THEN TagService(pathItem) ELSE n2
      n4 == IF ~Truthy(n3) /\ Truthy(ServerSegmentService(api))
            THEN ServerSegmentService(api) ELSE n3
  IN  IF ~Truthy(n4) THEN PathSegmentService(rawPath) ELSE n4

ServiceNameOf(api, rawPath, pathItem) ==
  LET n1 == PathLevelService(pathItem)
      n2 == IF ~Truthy(n1) THEN OperationLevelService(pathItem) ELSE n1
      n3 == IF ~Truthy(n2) /\ Truthy(ServerSegmentService(api))
            THEN ServerSegmentService(api) ELSE n2
      n4 == IF ~Truthy(n3) THEN TagService(pathItem) ELSE n3
  IN  IF ~Truthy(n4) THEN PathSegmentService(rawPath) ELSE n4

\* servicesMap.has(name) / servicesMap.get(name) on the insertion-ordered Map
HasService(services, name) == \E i \in 1..Len(services) : services[i].name = name

GetService(services, name) ==
  services[CHOOSE i \in 1..Len(services) : services[i].name = name]

\* a seed that prefers the declared server to the service map
SeedUpstreamServersFirst(api, serviceMap, serviceName) ==
  LET upstream == IF Len(api.servers) > 0 /\ Truthy(api.servers[1])
                  THEN api.servers[1]
                  ELSE Lookup(serviceMap, serviceName)
  IN  OrElse(upstream, <<>>)

\* upstream seed of a new service: serviceMap entry, else servers[0].url, else ""
SeedUpstream(api, serviceMap, serviceName) ==
  LET upstream == IF Truthy(Lookup(serviceMap, serviceName))
                  THEN Lookup(serviceMap, serviceName)
                  ELSE IF Len(api.servers) > 0 THEN api.servers[1] ELSE Undefined
  IN  OrElse(upstream, <<>>)

NewService(api, serviceMap, serviceName) ==
  [id |-> <<"svc-">> \o slug(serviceName),
   name |-> serviceName,
   upstreamUrl |-> SeedUpstream(api, serviceMap, serviceName),
   description |-> OrElse(api.title, Undefined)]

\* an annotation that takes every http scheme for a bearer token
SecurityPluginsAnyHttp(api, op) ==
  IF Len(op.security) > 0
  THEN LET secName == First(op.security[1])
           scheme == IF secName \in DOMAIN api.securitySchemes
                     THEN api.securitySchemes[secName]
                     ELSE [type |-> "", scheme |-> ""]
       IN  IF scheme.type = "apiKey" THEN [k \in {"key-auth"} |-> EmptyObj]
           ELSE IF scheme.type \in {"http", "oauth2", "openIdConnect"}
                THEN [k \in {"jwt"} |-> EmptyObj]
           ELSE EmptyObj
  ELSE EmptyObj

\* the auth plugin of an operation, from the first scheme of its first requirement
SecurityPlugins(api, op) ==
  IF Len(op.security) > 0
  THEN LET sec == op.security[1]
           secName == First(sec)
           scheme == IF secName \in DOMAIN api.securitySchemes
                     THEN api.securitySchemes[secName]
                     ELSE [type |-> "", scheme |-> ""]
       IN  IF scheme.type = "apiKey" THEN [k \in {"key-auth"} |-> EmptyObj]
           ELSE IF scheme.type = "http" /\ scheme.scheme \in {"bearer", "bearerAuth"}
                THEN [k \in {"jwt"} |-> EmptyObj]
           ELSE IF scheme.type \in {"oauth2", "openIdConnect"}
                THEN [k \in {"jwt"} |-> EmptyObj]
           ELSE EmptyObj
  ELSE EmptyObj

\* the rate-limiting plugin: the x-rate-limit payload, when truthy
RateLimitPlugins(op) ==
  IF Truthy(op.rateLimit) THEN [k \in {"rate-limiting"} |-> op.rateLimit]
  ELSE EmptyObj

NewRoute(api, svc, rawPath, method, op) ==
  [id |-> <<"r-">> \o shortHash(svc.name \o <<"|">> \o rawPath \o <<"|">> \o method),
   serviceId |-> svc.id,
   path |-> rawPath,
   methods |-> <<ToUpperCase(method)>>,
   plugins |-> SecurityPlugins(api, op) @@ RateLimitPlugins(op)]

\* a methods loop whose verb test is case-sensitive
RECURSIVE RoutesOfPathCaseSensitive(_, _, _, _)
RoutesOfPathCaseSensitive(api, svc, rawPath, entries) ==
  IF entries = <<>> THEN <<>>
  ELSE IF Head(entries).key \notin {<<"get">>, <<"post">>, <<"put">>, <<"patch">>,
                                    <<"delete">>, <<"options">>, <<"head">>}
       THEN RoutesOfPathCaseSensitive(api, svc, rawPath, Tail(entries))
       ELSE <<NewRoute(api, svc, rawPath, Head(entries).key, Head(entries).op)>>
            \o RoutesOfPathCaseSensitive(api, svc, rawPath, Tail(entries))

\* one route per verb key of the path item, in key order
RECURSIVE RoutesOfPath(_, _, _, _)
RoutesOfPath(api, svc, rawPath, entries) ==
  IF entries = <<>> THEN <<>>
  ELSE IF ~IsVerbKey(Head(entries).key)
       THEN RoutesOfPath(api, svc, rawPath, Tail(entries))
       ELSE <<NewRoute(api, svc, rawPath, Head(entries).key, Head(entries).op)>>
            \o RoutesOfPath(api, svc, rawPath, Tail(entries))

\* the loop over Object.keys(paths), from path i on
RECURSIVE MapPaths(_, _, _, _, _)
MapPaths(api, serviceMap, i, services, routes) ==
  IF i > Len(api.paths) THEN [services |-> services, routes |-> routes]
  ELSE LET rawPath == api.paths[i].path
           pathItem == api.paths[i].item
           serviceName == ServiceNameOf(api, rawPath, pathItem)
           services2 == IF HasService(services, serviceName) THEN services
                        ELSE Append(services, NewService(api, serviceMap, serviceName))
           svc == GetService(services2, serviceName)
       IN  MapPaths(api, serviceMap, i + 1, services2,
                    routes \o RoutesOfPath(api, svc, rawPath, pathItem.entries))

\* the result of a call: a value, or the error thrown
NoError == [kind |-> "none", channels |-> {}, subject |-> <<>>]
Returned(v) == [ok |-> TRUE, value |-> v, error |-> NoError]
Thrown(kind, channels, subject) ==
  [ok |-> FALSE, value |-> <<>>,
   error |-> [kind |-> kind, channels |-> channels, subject |-> subject]]

mapOpenApiToCanonical(api, serviceMap) ==
  LET m == MapPaths(api, serviceMap, 1, <<>>, <<>>)
  IN  Returned([services |-> m.services,
                routes |-> m.routes,
                metadata |-> [unified |-> FALSE, title |-> api.title,
                              serviceUpstreams |-> EmptyObj,
                              originalServices |-> <<>>]])

\* ---------------------------------------------------------------- merger
\* a services loop in which a later service replaces the one of the same name
RECURSIVE AddServicesLastWins(_, _)
AddServicesLastWins(allServices, services) ==
  IF services = <<>> THEN allServices
  ELSE AddServicesLastWins(
         IF HasService(allServices, Head(services).name)
         THEN [i \in 1..Len(allServices) |->
                 IF allServices[i].name = Head(services).name THEN Head(services)
                 ELSE allServices[i]]
         ELSE Append(allServices, Head(services)),
         Tail(services))

\* a services loop that appends every service, seen or not
RECURSIVE AddAllServices(_, _)
AddAllServices(allServices, services) ==
  IF services = <<>> THEN allServices
  ELSE AddAllServices(Append(allServices, Head(services)), Tail(services))

\* services of one model appended unless their name was already seen
RECURSIVE AddUnseenServices(_, _)
AddUnseenServices(allServices, services) ==
  IF services = <<>> THEN allServices
  ELSE AddUnseenServices(
         IF HasService(allServices, Head(services).name) THEN allServices
         ELSE Append(allServices, Head(services)),
         Tail(services))

\* a models loop that keeps only the routes of the services it appended
RECURSIVE MergeSeparateLoopOwnedOnly(_, _, _)
MergeSeparateLoopOwnedOnly(models, allServices, allRoutes) ==
  IF models = <<>> THEN [services |-> allServices, routes |-> allRoutes]
  ELSE LET added == {Head(models).services[k].id :
                       k \in {x \in 1..Len(Head(models).services) :
                                ~HasService(allServices, Head(models).services[x].name)}}
       IN  MergeSeparateLoopOwnedOnly(Tail(models),
             AddUnseenServices(allServices, Head(models).services),
             allRoutes \o SelectSeq(Head(models).routes,
                                    LAMBDA r : r.serviceId \in added))

RECURSIVE MergeSeparateLoop(_, _, _)
MergeSeparateLoop(models, allServices, allRoutes) ==
  IF models = <<>> THEN [services |-> allServices, routes |-> allRoutes]
  ELSE MergeSeparateLoop(Tail(models),
                         AddUnseenServices(allServices, Head(models).services),
                         allRoutes \o Head(models).routes)

\* a separate merge without the guard on an empty list
mergeCanonicalModelsUnguarded(models) ==
  LET m == MergeSeparateLoop(models, <<>>, <<>>)
  IN  Returned([services |-> m.services,
                routes |-> m.routes,
                metadata |-> IF Len(models) = 0
                             THEN [unified |-> FALSE, title |-> Undefined,
                                   serviceUpstreams |-> EmptyObj,
                                   originalServices |-> <<>>]
                             ELSE models[1].metadata])

mergeCanonicalModels(models) ==
  IF Len(models) = 0 THEN Thrown("NoCanonicalModels", {}, <<>>)
  ELSE LET m == MergeSeparateLoop(models, <<>>, <<>>)
       IN  Returned([services |-> m.services,
                     routes |-> m.routes,
                     metadata |-> models[1].metadata])

unifiedService ==
  [id |-> <<"svc-", "unified", "-", "gateway">>,
   name |-> <<"unified", "-", "gateway">>,
   upstreamUrl |-> <<>>,
   description |-> <<"Unified API Gateway for all microservices">>]

\* serviceUpstreams.set(name, url) for every service with a truthy upstreamUrl
RECURSIVE CollectUpstreams(_, _)
CollectUpstreams(serviceUpstreams, services) ==
  IF services = <<>> THEN serviceUpstreams
  ELSE CollectUpstreams(
         IF Truthy(Head(services).upstreamUrl)
         THEN (Head(services).name :> Head(services).upstreamUrl) @@ serviceUpstreams
         ELSE serviceUpstreams,
         Tail(services))

\* a lookup that never finds the owning service
FindByIdNever(services, id) == Undefined

\* model.services.find(s => s.id === id)
RECURSIVE FindById(_, _)
FindById(services, id) ==
  IF services = <<>> THEN Undefined
  ELSE IF Head(services).id = id THEN Head(services).name
       ELSE FindById(Tail(services), id)

\* the upstream-routing payload of a route of model
UpstreamRoutingOf(model, serviceUpstreams, route) ==
  LET serviceName == OrElse(FindById(model.services, route.serviceId), <<"unknown">>)
  IN  [originalServiceName |-> serviceName,
       upstreamUrl |-> Lookup(serviceUpstreams, serviceName)]

\* a unified route that keeps the service reference of the original route
UnifiedRouteKeepsService(model, serviceUpstreams, route) ==
  [id |-> route.id \o <<"-unified">>,
   serviceId |-> route.serviceId,
   path |-> route.path,
   methods |-> route.methods,
   plugins |-> ("upstream-routing" :> UpstreamRoutingOf(model, serviceUpstreams, route))
               @@ route.plugins]

\* a unified route that keeps the id of the original route
UnifiedRouteKeepsId(model, serviceUpstreams, route) ==
  [id |-> route.id,
   serviceId |-> unifiedService.id,
   path |-> route.path,
   methods |-> route.methods,
   plugins |-> ("upstream-routing" :> UpstreamRoutingOf(model, serviceUpstreams, route))
               @@ route.plugins]

UnifiedRoute(model, serviceUpstreams, route) ==
  [id |-> route.id \o <<"-unified">>,
   serviceId |-> unifiedService.id,
   path |-> route.path,
   methods |-> route.methods,
   plugins |-> ("upstream-routing" :> UpstreamRoutingOf(model, serviceUpstreams, route))
               @@ route.plugins]

RECURSIVE MergeUnifiedLoop(_, _, _)
MergeUnifiedLoop(models, serviceUpstreams, allRoutes) ==
  IF models = <<>> THEN [serviceUpstreams |-> serviceUpstreams, routes |-> allRoutes]
  ELSE LET model == Head(models)
           ups == CollectUpstreams(serviceUpstreams, model.services)
       IN  MergeUnifiedLoop(Tail(models), ups,
             allRoutes \o [i \in 1..Len(model.routes) |->
                             UnifiedRoute(model, ups, model.routes[i])])

\* models.flatMap(m => m.services.map(s => s.name))
RECURSIVE OriginalServices(_)
OriginalServices(models) ==
  IF models = <<>> THEN <<>>
  ELSE [i \in 1..Len(Head(models).services) |-> Head(models).services[i].name]
       \o OriginalServices(Tail(models))

mergeCanonicalModelsUnified(models) ==
  IF Len(models) = 0 THEN Thrown("NoCanonicalModels", {}, <<>>)
  ELSE LET m == MergeUnifiedLoop(models, EmptyObj, <<>>)
       IN  Returned([services |-> <<unifiedService>>,
                     routes |-> m.routes,
                     metadata |-> [unified |-> TRUE, title |-> Undefined,
                                   serviceUpstreams |-> m.serviceUpstreams,
                                   originalServices |-> OriginalServices(models)]])

\* ------------------------------------------------------- context builder
\* the resolution channels an error message names
ServiceErrorChannels == {"servers", "service-map", "upstream"}
RouteErrorChannels == {"service-map", "upstream"}

\* new Map(services.map(s => [s.id, s])).get(id): the last service with the id
RECURSIVE SvcById(_, _)
SvcById(services, id) ==
  IF services = <<>> THEN Undefined
  ELSE IF services[Len(services)].id = id THEN services[Len(services)].name
       ELSE SvcById(SubSeq(services, 1, Len(services) - 1), id)

\* a resolver that lets the global upstream win over the service map
ResolveServiceUpstreamGlobalFirst(svc, opts) ==
  OrElse(opts.cliUpstream,
    OrElse(Lookup(opts.serviceMap, svc.name),
      IF Truthy(svc.upstreamUrl) THEN svc.upstreamUrl ELSE Undefined))

\* separate mode: explicit || cliUpstream || (non-empty svc.upstreamUrl)
ResolveServiceUpstream(svc, opts) ==
  LET explicit == Lookup(opts.serviceMap, svc.name)
  IN  OrElse(explicit,
        OrElse(opts.cliUpstream,
          IF Truthy(svc.upstreamUrl) /\ Len(svc.upstreamUrl) > 0
          THEN svc.upstreamUrl ELSE Undefined))

\* a resolver that lets the captured upstream win over the global upstream
ResolveRouteUpstreamStoredFirst(upstreamRouting, opts) ==
  OrElse(Lookup(opts.serviceMap, upstreamRouting.originalServiceName),
    OrElse(upstreamRouting.upstreamUrl, opts.cliUpstream))

\* unified mode: serviceMap[originalServiceName] || cliUpstream || stored upstreamUrl
ResolveRouteUpstream(upstreamRouting, opts) ==
  OrElse(Lookup(opts.serviceMap, upstreamRouting.originalServiceName),
    OrElse(opts.cliUpstream, upstreamRouting.upstreamUrl))

\* a services loop that records an unresolved upstream instead of throwing
RECURSIVE BuildServicesLenient(_, _, _, _)
BuildServicesLenient(services, isUnified, opts, acc) ==
  IF services = <<>> THEN Returned(acc)
  ELSE LET svc == Head(services)
           upstream == ResolveServiceUpstream(svc, opts)
       IN  BuildServicesLenient(Tail(services), isUnified, opts,
             (svc.name :> [upstream |-> IF isUnified THEN <<"unified">>
                                        ELSE OrElse(upstream, <<>>),
                           routes |-> <<>>]) @@ acc)

\* the loop over canonical.services
RECURSIVE BuildServices(_, _, _, _)
BuildServices(services, isUnified, opts, acc) ==
  IF services = <<>> THEN Returned(acc)
  ELSE LET svc == Head(services)
           upstream == ResolveServiceUpstream(svc, opts)
       IN  IF isUnified
           THEN BuildServices(Tail(services), isUnified, opts,
                  (svc.name :> [upstream |-> <<"unified">>, routes |-> <<>>]) @@ acc)
           ELSE IF ~Truthy(upstream)
                THEN Thrown("NoUpstreamForService", ServiceErrorChannels, svc.name)
                ELSE BuildServices(Tail(services), isUnified, opts,
                       (svc.name :> [upstream |-> upstream, routes |-> <<>>]) @@ acc)

\* a route entry that always carries an upstream value
RouteEntryFilled(r, routeUpstream) ==
  [path |-> r.path, methods |-> r.methods, plugins |-> r.plugins,
   id |-> r.id, upstream |-> OrElse(routeUpstream, <<"unified">>)]

RouteEntry(r, routeUpstream) ==
  [path |-> r.path, methods |-> r.methods, plugins |-> r.plugins,
   id |-> r.id, upstream |-> routeUpstream]

\* the loop over canonical.routes
RECURSIVE BuildRoutes(_, _, _, _, _)
BuildRoutes(canonical, routes, isUnified, opts, acc) ==
  IF routes = <<>> THEN Returned(acc)
  ELSE LET r == Head(routes)
           svcName == SvcById(canonical.services, r.serviceId)
           hasRouting == isUnified /\ "upstream-routing" \in DOMAIN r.plugins
           routeUpstream == IF hasRouting
                            THEN ResolveRouteUpstream(r.plugins["upstream-routing"], opts)
                            ELSE Undefined
       IN  IF svcName = Undefined
           THEN BuildRoutes(canonical, Tail(routes), isUnified, opts, acc)
           ELSE IF hasRouting /\ ~Truthy(routeUpstream)
                THEN Thrown("NoUpstreamForRoute", RouteErrorChannels, r.path)
                ELSE BuildRoutes(canonical, Tail(routes), isUnified, opts,
                       [acc EXCEPT ![svcName].routes =
                          Append(@, RouteEntry(r, routeUpstream))])

buildTerraformContext(canonical, opts) ==
  LET isUnified == canonical.metadata.unified = TRUE
      svcs == BuildServices(canonical.services, isUnified, opts, EmptyObj)
  IN  IF ~svcs.ok THEN svcs
      ELSE LET filled == BuildRoutes(canonical, canonical.routes, isUnified, opts,
                                     svcs.value)
           IN  IF ~filled.ok THEN filled
               ELSE Returned([services |-> filled.value,
                              metadata |-> canonical.metadata])

\* ------------------------------------------------------------ documents
Op(xs, tags, sec, rl) == [xService |-> xs, tags |-> tags, security |-> sec, rateLimit |-> rl]
PlainOp == Op(Undefined, <<>>, <<>>, Undefined)

\* upstream URLs and payloads that occur in the inputs
UrlAuth == <<"https", "://", "h", "/", "auth">>
UrlMap == <<"https", "://", "m">>
UrlGlobal == <<"https", "://", "g">>
RateLimit10 == <<"requests:10,period:60">>

SecuritySchemes ==
  (<<"k">> :> [type |-> "apiKey", scheme |-> ""]) @@
  (<<"b">> :> [type |-> "http", scheme |-> "bearer"]) @@
  (<<"basic">> :> [type |-> "http", scheme |-> "basic"]) @@
  (<<"o">> :> [type |-> "oauth2", scheme |-> ""]) @@
  (<<"ba">> :> [type |-> "http", scheme |-> "bearerAuth"]) @@
  (<<"oidc">> :> [type |-> "openIdConnect", scheme |-> ""])

\* the path items documents are made of, in the order they may appear
PathPool ==
  << [path |-> <<"/", "login">>,
      item |-> [xService |-> Undefined,
                entries |-> <<[key |-> <<"post">>,
                               op |-> Op(Undefined, <<<<"Auth", " ", "Svc">>>>,
                                         <<<<<<"k">>>>>>, RateLimit10)]>>]],
     [path |-> <<"/", "admin">>,
      item |-> [xService |-> <<"Auth", " ", "Svc">>,
                entries |-> <<[key |-> <<"parameters">>, op |-> PlainOp],
                              [key |-> <<"get">>,
                               op |-> Op(<<"pay">>, <<>>, <<<<<<"basic">>>>>>, Undefined)],
                              [key |-> <<"delete">>, op |-> PlainOp]>>]],
     [path |-> <<"/", "pay", "/", "charge">>,
      item |-> [xService |-> Undefined,
                entries |-> <<[key |-> <<"get">>,
                               op |-> Op(Undefined, <<>>, <<<<<<"oidc">>>>>>, Undefined)],
                              [key |-> <<"Post">>,
                               op |-> Op(<<"pay">>, <<>>, <<<<<<"b">>>>>>, Undefined)]>>]],
     [path |-> <<"/", "users">>,
      item |-> [xService |-> Undefined,
                entries |-> <<[key |-> <<"get">>,
                               op |-> Op(Undefined, <<>>, <<<<<<"missing">>>>>>, <<>>)]>>]],
     [path |-> <<"/">>,
      item |-> [xService |-> Undefined,
                entries |-> <<[key |-> <<"get">>,
                               op |-> Op(Undefined, <<<<>>>>, <<<<<<"o">>>>>>, Undefined)]>>]],
     [path |-> <<"/", "svc", "/", "login">>,
      item |-> [xService |-> Undefined,
                entries |-> <<[key |-> <<"get">>,
                               op |-> Op(Undefined, <<>>, <<<<<<"ba">>>>>>, Undefined)],
                              [key |-> <<"post">>,
                               op |-> Op(Undefined, <<<<"pay">>, <<"auth">>>>, <<>>,
                                         RateLimit10)]>>]] >>

\* the path items the documents of a multi-spec run are made of
SmallPathPool == <<PathPool[1], PathPool[2]>>

\* the sub-sequences of pool (from index from on) with at most n path items
RECURSIVE PathSeqs(_, _, _)
PathSeqs(pool, from, n) ==
  IF n = 0 \/ from > Len(pool) THEN {<<>>}
  ELSE PathSeqs(pool, from + 1, n)
       \cup {<<pool[from]>> \o rest : rest \in PathSeqs(pool, from + 1, n - 1)}

\* a bundled document, as the parser library hands it to the normalizer
RawDoc(swagger, openapi, title, xs, host, servers, paths) ==
  [swagger |-> swagger, openapi |-> openapi, title |-> title, xService |-> xs,
   host |-> host, basePath |-> Undefined, schemes |-> Undefined,
   servers |-> servers, paths |-> paths,
   securitySchemes |-> IF openapi # Undefined THEN SecuritySchemes ELSE EmptyObj,
   securityDefinitions |-> IF swagger # Undefined THEN SecuritySchemes ELSE EmptyObj]

V3 == <<"3", ".", "0">>
V2 == <<"2", ".", "0">>

\* the spec files a run of the command may be given
SpecFiles ==
  UNION { { RawDoc(Undefined, V3, <<"A">>, Undefined, Undefined, <<UrlAuth>>, ps),
            RawDoc(Undefined, V3, <<"B">>, <<"auth">>, Undefined, <<>>, ps),
            RawDoc(V2, Undefined, <<"C">>, Undefined, <<"h">>, <<>>, ps),
            RawDoc(V2, Undefined, Undefined, Undefined, Undefined, <<>>, ps) }
          : ps \in PathSeqs(SmallPathPool, 1, MaxPaths) }

\* a normalized document with the given servers, title and paths
NormalizedDoc(title, servers, ps) ==
  [normalizeBundledSpec(RawDoc(Undefined, V3, title, Undefined, Undefined, <<>>, ps))
     EXCEPT !.servers = servers]

\* the normalized documents a stubbed loader returns to a multi-spec run
CoreDocs ==
  UNION { { NormalizedDoc(<<"A">>, <<UrlAuth>>, ps),
            NormalizedDoc(<<"B">>, <<>>, ps),
            NormalizedDoc(Undefined, <<<<"https", "://", "h">>>>, ps) }
          : ps \in PathSeqs(SmallPathPool, 1, MaxPaths) }
  \cup { NormalizedDoc(<<"A">>, <<UrlAuth>>, <<PathPool[1], PathPool[4]>>) }

\* a document handed to the mapper as written, its path items' keys untouched
HandBuiltDoc(title, servers, ps) ==
  [NormalizedDoc(title, servers, <<>>) EXCEPT !.paths = ps]

\* the normalized documents the mapper is exercised on, one per run
MapperDocs ==
  UNION { { NormalizedDoc(<<"A">>, <<UrlAuth>>, ps),
            NormalizedDoc(<<"B">>, <<>>, ps),
            NormalizedDoc(Undefined, <<<<"https", "://", "h">>, UrlAuth>>, ps),
            NormalizedDoc(<<"C">>, <<<<"/", "api">>>>, ps),
            NormalizedDoc(<<"C">>, <<<<>>, UrlAuth>>, ps),
            NormalizedDoc(<<"A">>, <<PlaceholderUrl>>, ps),
            HandBuiltDoc(<<"D">>, <<UrlAuth>>, ps) }
          : ps \in PathSeqs(PathPool, 1, MaxPaths) }

\* the service maps a call may be given
ServiceMaps ==
  { EmptyObj,
    (<<"auth", "-", "svc">> :> UrlMap) @@ (<<"pay">> :> UrlMap) @@ (<<"auth">> :> <<>>) }

\* the --upstream values a run may be given
CliUpstreams == {Undefined, UrlGlobal}

\* ------------------------------------------------------------- the run
VARIABLES
  loader,           \* what stands for parseSpecAndGetOperations in this run
  opts,             \* the GenerateOpts of the run
  mapOpts,          \* the MapOpts handed to mapOpenApiToCanonical
  pc,               \* where generateFromSpec stands
  apis,             \* the normalized documents parsed so far
  canonicalModels,  \* the canonical model of each parsed document
  mergedCanonical,  \* the merged model, once merged
  context,          \* the render context, once built
  error,            \* the error thrown, if any
  outDir,           \* the output directory: "untouched" or "ensured"
  rendered          \* the context handed to the renderer, once rendered

vars == <<loader, opts, mapOpts, pc, apis, canonicalModels, mergedCanonical, context, error, outDir, rendered>>

NoModel == [services |-> <<>>, routes |-> <<>>,
            metadata |-> [unified |-> FALSE, title |-> Undefined,
                          serviceUpstreams |-> EmptyObj, originalServices |-> <<>>]]
NoContext == [services |-> EmptyObj, metadata |-> NoModel.metadata]

Start ==
  /\ pc = "parse"
  /\ apis = <<>>
  /\ canonicalModels = <<>>
  /\ mergedCanonical = NoModel
  /\ context = NoContext
  /\ error = NoError
  /\ outDir = "untouched"
  /\ rendered = <<>>

\* generateFromSpec on spec files: the mapper gets the run's service map
Init ==
  /\ loader = "parser"
  /\ opts \in [specCount : 0..MaxSpecs, serviceMap : ServiceMaps,
               cliUpstream : CliUpstreams, force : BOOLEAN, unified : BOOLEAN]
  /\ mapOpts = [serviceMap |-> opts.serviceMap]
  /\ Start

\* the same steps driven with a stubbed loader that returns normalized
\* documents, the mapper and the builder each called with options of its own;
\* force is left at its default
InitCore ==
  /\ loader = "stub"
  /\ opts \in [specCount : 0..MaxSpecs, serviceMap : ServiceMaps,
               cliUpstream : CliUpstreams, force : {FALSE}, unified : BOOLEAN]
  /\ mapOpts \in [serviceMap : ServiceMaps]
  /\ Start

\* the same steps on one normalized document out of the mapper's fixtures
InitMapper ==
  /\ loader = "fixtures"
  /\ opts \in [specCount : {1}, serviceMap : ServiceMaps,
               cliUpstream : CliUpstreams, force : BOOLEAN, unified : BOOLEAN]
  /\ mapOpts = [serviceMap |-> opts.serviceMap]
  /\ Start

\* the normalized documents parseSpecAndGetOperations may return
Loaded(l) ==
  CASE l = "parser" -> {normalizeBundledSpec(doc) : doc \in SpecFiles}
    [] l = "stub" -> CoreDocs
    [] l = "fixtures" -> MapperDocs

Fail(err) == pc' = "failed" /\ error' = err

\* a turn of the loop whose mapper keeps its routes array from call to call
ParseAndMapSharedRoutes ==
  /\ pc = "parse"
  /\ Len(apis) < opts.specCount
  /\ \E normalized \in Loaded(loader) :
       LET canonical == mapOpenApiToCanonical(normalized, mapOpts.serviceMap).value
           earlier == IF canonicalModels = <<>> THEN <<>>
                      ELSE canonicalModels[Len(canonicalModels)].routes
       IN  /\ apis' = Append(apis, normalized)
           /\ canonicalModels' =
                Append(canonicalModels,
                       [canonical EXCEPT !.routes = earlier \o canonical.routes])
  /\ UNCHANGED <<loader, opts, mapOpts, pc, mergedCanonical, context, error, outDir, rendered>>

\* one turn of the loop over specPaths: parse, normalize, map, push
ParseAndMap ==
  /\ pc = "parse"
  /\ Len(apis) < opts.specCount
  /\ \E normalized \in Loaded(loader) :
       LET canonical == mapOpenApiToCanonical(normalized, mapOpts.serviceMap)
       IN  /\ apis' = Append(apis, normalized)
           /\ IF canonical.ok
              THEN /\ canonicalModels' = Append(canonicalModels, canonical.value)
                   /\ UNCHANGED <<pc, error>>
              ELSE /\ Fail(canonical.error)
                   /\ UNCHANGED canonicalModels
  /\ UNCHANGED <<loader, opts, mapOpts, mergedCanonical, context, outDir, rendered>>

\* the spec file is missing or does not validate: parseAndNormalizeSpec throws
ParseFails ==
  /\ pc = "parse"
  /\ Len(apis) < opts.specCount
  /\ Fail([kind |-> "SpecParse", channels |-> {}, subject |-> <<>>])
  /\ UNCHANGED <<loader, opts, mapOpts, apis, canonicalModels, mergedCanonical, context, outDir, rendered>>

\* the merge selected by opts.unified
MergeFor(unified, models) ==
  IF unified THEN mergeCanonicalModelsUnified(models) ELSE mergeCanonicalModels(models)

\* a merge step that re-parents the routes of the input models in place
MergeInPlace ==
  /\ pc = "parse"
  /\ Len(apis) = opts.specCount
  /\ LET merged == MergeFor(opts.unified, canonicalModels)
     IN  IF merged.ok
         THEN /\ pc' = "build" /\ mergedCanonical' = merged.value /\ error' = error
              /\ canonicalModels' =
                   [m \in 1..Len(canonicalModels) |->
                      [canonicalModels[m] EXCEPT !.routes =
                         [n \in 1..Len(canonicalModels[m].routes) |->
                            [canonicalModels[m].routes[n] EXCEPT !.serviceId =
                               IF opts.unified THEN unifiedService.id ELSE @]]]]
         ELSE Fail(merged.error) /\ UNCHANGED <<mergedCanonical, canonicalModels>>
  /\ UNCHANGED <<loader, opts, mapOpts, apis, context, outDir, rendered>>

Merge ==
  /\ pc = "parse"
  /\ Len(apis) = opts.specCount
  /\ LET merged == MergeFor(opts.unified, canonicalModels)
     IN  IF merged.ok
         THEN pc' = "build" /\ mergedCanonical' = merged.value /\ error' = error
         ELSE Fail(merged.error) /\ mergedCanonical' = mergedCanonical
  /\ UNCHANGED <<loader, opts, mapOpts, apis, canonicalModels, context, outDir, rendered>>

Build ==
  /\ pc = "build"
  /\ LET built == buildTerraformContext(mergedCanonical, opts)
     IN  IF built.ok
         THEN pc' = "guard" /\ context' = built.value /\ error' = error
         ELSE Fail(built.error) /\ context' = context
  /\ UNCHANGED <<loader, opts, mapOpts, apis, canonicalModels, mergedCanonical, outDir, rendered>>

\* a guard that runs after the directory was created
EnsureOutDirUnguarded ==
  /\ pc = "guard"
  /\ outDir' = "ensured"
  /\ \E exists \in BOOLEAN :
       IF exists /\ ~opts.force
       THEN Fail([kind |-> "OutDirExists", channels |-> {}, subject |-> <<>>])
       ELSE pc' = "templates" /\ error' = error
  /\ UNCHANGED <<loader, opts, mapOpts, apis, canonicalModels, mergedCanonical, context, rendered>>

\* the overwrite guard and fs.ensureDir
EnsureOutDir ==
  /\ pc = "guard"
  /\ \E exists \in BOOLEAN :
       IF exists /\ ~opts.force
       THEN Fail([kind |-> "OutDirExists", channels |-> {}, subject |-> <<>>])
            /\ outDir' = outDir
       ELSE pc' = "templates" /\ outDir' = "ensured" /\ error' = error
  /\ UNCHANGED <<loader, opts, mapOpts, apis, canonicalModels, mergedCanonical, context, rendered>>

LoadTemplates ==
  /\ pc = "templates"
  /\ pc' = "render"
  /\ UNCHANGED <<loader, opts, mapOpts, apis, canonicalModels, mergedCanonical, context, error, outDir, rendered>>

Render ==
  /\ pc = "render"
  /\ rendered' = <<context>>
  /\ pc' = "done"
  /\ UNCHANGED <<loader, opts, mapOpts, apis, canonicalModels, mergedCanonical, context, error, outDir>>

Next ==
  \/ ParseAndMap
  \/ ParseFails
  \/ Merge
  \/ Build
  \/ EnsureOutDir
  \/ LoadTemplates
  \/ Render

Spec == Init /\ [][Next]_vars

SpecCore == InitCore /\ [][Next]_vars

SpecMapper == InitMapper /\ [][Next]_vars

\* ================================================================ claims
\* the run's stages, read off pc and error
MergeReturned == pc \notin {"parse"} /\ error.kind \notin {"SpecParse", "NoCanonicalModels"}
BuildFailed == pc = "failed" /\ error.kind \in {"NoUpstreamForService", "NoUpstreamForRoute"}
Built == MergeReturned /\ pc # "build" /\ ~BuildFailed

\* the first element of a sequence of candidates that is present and non-empty
RECURSIVE FirstPresent(_)
FirstPresent(cands) ==
  IF cands = <<>> THEN Undefined
  ELSE IF Head(cands) # Undefined /\ Len(Head(cands)) > 0 THEN Head(cands)
       ELSE FirstPresent(Tail(cands))

MapEntry(name) == IF name \in DOMAIN opts.serviceMap THEN opts.serviceMap[name] ELSE Undefined

UnifiedName == <<"unified", "-", "gateway">>

\* ---------------------------------------------------------------- C1
\* C1: separate mode: in a built context the upstream of every service of the
\* merged model is the first present of the service-map entry for its name, the
\* global upstream and the service's seeded upstreamUrl.
C1_SeparateResolutionOrder ==
  (Built /\ ~opts.unified) =>
    \A i \in 1..Len(mergedCanonical.services) :
      LET svc == mergedCanonical.services[i]
      IN  /\ svc.name \in DOMAIN context.services
          /\ context.services[svc.name].upstream =
               FirstPresent(<<MapEntry(svc.name), opts.cliUpstream, svc.upstreamUrl>>)

\* a service seeded U1 with global U2 and map entry U3, all different, resolved
C1_Witness ==
  /\ Built /\ ~opts.unified
  /\ \E i \in 1..Len(mergedCanonical.services) :
       LET svc == mergedCanonical.services[i]
       IN  /\ Truthy(svc.upstreamUrl) /\ Truthy(opts.cliUpstream) /\ Truthy(MapEntry(svc.name))
           /\ svc.upstreamUrl # opts.cliUpstream
           /\ MapEntry(svc.name) \notin {svc.upstreamUrl, opts.cliUpstream}
           /\ context.services[svc.name].upstream = MapEntry(svc.name)

\* ---------------------------------------------------------------- C2
\* the upstream-routing payload of a merged route
Routing(r) == r.plugins["upstream-routing"]

\* C2: unified mode: the i-th route entry of the context is the entry of the i-th
\* merged route and its upstream is the first present of the service-map entry
\* for the route's originalServiceName, the global upstream and the upstreamUrl
\* stored in the route's upstream-routing plugin; with a global upstream and no
\* service map every entry's upstream is the global upstream.
C2_UnifiedResolutionOrder ==
  (Built /\ opts.unified) =>
    LET entries == context.services[UnifiedName].routes
    IN  /\ Len(entries) = Len(mergedCanonical.routes)
        /\ \A i \in 1..Len(entries) :
             LET r == mergedCanonical.routes[i]
             IN  /\ entries[i].id = r.id
                 /\ entries[i].upstream =
                      FirstPresent(<<MapEntry(Routing(r).originalServiceName),
                                     opts.cliUpstream, Routing(r).upstreamUrl>>)
                 /\ (opts.serviceMap = EmptyObj /\ opts.cliUpstream # Undefined)
                      => entries[i].upstream = opts.cliUpstream

\* a route whose captured upstream differs from the global one, resolved to the global
C2_Witness ==
  /\ Built /\ opts.unified /\ opts.serviceMap = EmptyObj /\ Truthy(opts.cliUpstream)
  /\ \E i \in 1..Len(mergedCanonical.routes) :
       /\ Truthy(Routing(mergedCanonical.routes[i]).upstreamUrl)
       /\ Routing(mergedCanonical.routes[i]).upstreamUrl # opts.cliUpstream
       /\ context.services[UnifiedName].routes[i].upstream = opts.cliUpstream

\* ---------------------------------------------------------------- C3
\* nothing resolves the service: no map entry, no global upstream, empty seed
UnresolvableService(svc) ==
  /\ FirstPresent(<<MapEntry(svc.name)>>) = Undefined
  /\ FirstPresent(<<opts.cliUpstream>>) = Undefined
  /\ FirstPresent(<<svc.upstreamUrl>>) = Undefined

UnresolvableRoute(r) ==
  /\ FirstPresent(<<MapEntry(Routing(r).originalServiceName)>>) = Undefined
  /\ FirstPresent(<<opts.cliUpstream>>) = Undefined
  /\ FirstPresent(<<Routing(r).upstreamUrl>>) = Undefined

SomeUnresolvable ==
  IF opts.unified
  THEN \E i \in 1..Len(mergedCanonical.routes) : UnresolvableRoute(mergedCanonical.routes[i])
  ELSE \E i \in 1..Len(mergedCanonical.services) :
         UnresolvableService(mergedCanonical.services[i])

\* every resolved upstream of a context: per service (separate), per route entry (unified)
ResolvedUpstreams(ctx, unified) ==
  IF unified
  THEN UNION { { ctx.services[n].routes[i].upstream : i \in 1..Len(ctx.services[n].routes) }
               : n \in DOMAIN ctx.services }
  ELSE { ctx.services[n].upstream : n \in DOMAIN ctx.services }

\* C3: once the build step has run on a merged model, an unresolvable service
\* (separate) or route (unified) means the build threw and no context was
\* returned or rendered; every context that was returned has a non-empty
\* resolved upstream for every service (separate) or route entry (unified).
C3_FailFast ==
  /\ (MergeReturned /\ pc # "build" /\ SomeUnresolvable) =>
       (BuildFailed /\ context = NoContext /\ rendered = <<>>)
  /\ Built =>
       /\ ~SomeUnresolvable
       /\ \A u \in ResolvedUpstreams(context, opts.unified) : u # Undefined /\ Len(u) > 0

\* the build threw on a service that follows a resolvable one: nothing was returned
C3_Witness ==
  /\ BuildFailed /\ ~opts.unified /\ context = NoContext
  /\ \E i, j \in 1..Len(mergedCanonical.services) :
       /\ i < j
       /\ ~UnresolvableService(mergedCanonical.services[i])
       /\ UnresolvableService(mergedCanonical.services[j])

\* ---------------------------------------------------------------- C4
\* the document declares no servers (no host, for swagger 2)
DeclaresNoServers(raw) ==
  IF raw.swagger # Undefined THEN raw.host = Undefined ELSE Len(raw.servers) = 0

\* C4: end to end, a spec that declares no servers, with no service-map entry
\* for its service and no global upstream, makes generation abort with the
\* unresolved-upstream error; no context with an empty or placeholder resolved
\* upstream is handed to the renderer.
C4_NoServersAborts ==
  /\ Built =>
       \A i \in 1..Len(canonicalModels) :
         \A k \in 1..Len(canonicalModels[i].services) :
           ~ /\ DeclaresNoServers(apis[i].raw)
             /\ FirstPresent(<<MapEntry(canonicalModels[i].services[k].name),
                               opts.cliUpstream>>) = Undefined
  /\ rendered # <<>> =>
       \A u \in ResolvedUpstreams(rendered[1], opts.unified) :
         u # Undefined /\ Len(u) > 0 /\ u # PlaceholderUrl

\* ---------------------------------------------------------------- C5
\* C5: whenever upstream resolution fails, per service or per route, the error
\* names all three resolution channels: a servers entry, a service-map entry
\* and the global upstream option.
C5_ErrorNamesAllChannels ==
  BuildFailed => error.channels = {"servers", "service-map", "upstream"}

\* ---------------------------------------------------------------- C6
VerbEntries(item) == SelectSeq(item.entries, LAMBDA e : IsVerbKey(e.key))

\* the least index of ops that satisfies Test, 0 if none
FirstIndex(ops, Test(_)) ==
  LET hits == {k \in 1..Len(ops) : Test(ops[k].op)}
  IN  IF hits = {} THEN 0 ELSE CHOOSE k \in hits : \A m \in hits : k <= m

C6_Rule1(item) == item.xService

C6_Rule2(item) ==
  LET ops == VerbEntries(item)
      k == FirstIndex(ops, LAMBDA op : op.xService # Undefined /\ op.xService # <<>>)
  IN  IF k = 0 THEN Undefined ELSE ops[k].op.xService

C6_Rule3(api) ==
  IF Len(api.servers) = 0 THEN Undefined
  ELSE IF ~UrlParses(api.servers[1]) THEN Undefined
  ELSE LET segs == SplitSegments(UrlPathname(api.servers[1]), <<>>)
       IN  IF segs = <<>> THEN Undefined ELSE segs[1]

C6_Rule4(item) ==
  LET ops == VerbEntries(item)
      k == FirstIndex(ops, LAMBDA op : op.tags # <<>>)
  IN  IF k = 0 THEN Undefined ELSE ReplaceSpaceRuns(ToLowerCase(ops[k].op.tags[1]))

C6_Rule5(rawPath) ==
  LET segs == SplitSegments(rawPath, <<>>)
  IN  IF segs = <<>> THEN Undefined ELSE segs[1]

\* the service name the six rules give to path j of api
C6_Expected(api, j) ==
  FirstPresent(<<C6_Rule1(api.paths[j].item), C6_Rule2(api.paths[j].item),
                 C6_Rule3(api), C6_Rule4(api.paths[j].item),
                 C6_Rule5(api.paths[j].path), <<"root">>>>)

NoLocalXService(item) ==
  FirstPresent(<<C6_Rule1(item), C6_Rule2(item)>>) = Undefined

\* C7: a spec-level x-service applies to all paths of the spec: every path
\* without a path-level or operation-level x-service is grouped under the
\* globally declared name, through the per-spec processing of generateFromSpec.
C7_GlobalXServiceApplies ==
  \A i \in 1..Len(canonicalModels) :
    LET global == apis[i].raw.xService
    IN  FirstPresent(<<global>>) # Undefined =>
          \A j \in 1..Len(apis[i].paths) :
            NoLocalXService(apis[i].paths[j].item) =>
              /\ HasService(canonicalModels[i].services, global)
              /\ \A n \in 1..Len(canonicalModels[i].routes) :
                   canonicalModels[i].routes[n].path = apis[i].paths[j].path =>
                     canonicalModels[i].routes[n].serviceId = <<"svc-">> \o slug(global)

\* ---------------------------------------------------------------- C8
\* C8: mapOpenApiToCanonical throws a structural error exactly when the
\* document has no paths, and returns a model for every document that has paths.
C8_NoPathsThrows ==
  \A i \in 1..Len(apis) :
    IF Len(apis[i].paths) = 0
    THEN pc = "failed" /\ error.kind = "NoPaths" /\ Len(canonicalModels) < i
    ELSE Len(canonicalModels) >= i

\* ---------------------------------------------------------------- C9
MergeAttempted == pc # "parse" /\ error.kind # "SpecParse"

\* C9: either merge, given no models, throws and returns nothing; given at
\* least one model it returns a model of the selected strategy.
C9_EmptyMergeFails ==
  MergeAttempted =>
    IF Len(canonicalModels) = 0
    THEN pc = "failed" /\ error.kind = "NoCanonicalModels" /\ mergedCanonical = NoModel
    ELSE /\ error.kind # "NoCanonicalModels"
         /\ mergedCanonical.metadata.unified = opts.unified
         /\ ~opts.unified =>
              Len(mergedCanonical.services) <= Len(OriginalServices(canonicalModels))
         /\ opts.unified => mergedCanonical.services = <<unifiedService>>

\* the separate merge was given no models and threw
C9_Witness ==
  /\ pc = "failed" /\ error.kind = "NoCanonicalModels"
  /\ ~opts.unified /\ opts.specCount = 0 /\ canonicalModels = <<>>

\* --------------------------------------------------------------- C10
\* the service named name of the first input model that has one
FirstOccurrence(models, name) ==
  LET m == CHOOSE a \in 1..Len(models) :
             /\ HasService(models[a].services, name)
             /\ \A b \in 1..(a - 1) : ~HasService(models[b].services, name)
      k == CHOOSE a \in 1..Len(models[m].services) :
             /\ models[m].services[a].name = name
             /\ \A b \in 1..(a - 1) : models[m].services[b].name # name
  IN  models[m].services[k]

\* C10: the separate merge keeps, for every service name of the inputs, exactly
\* one service of that name: the entry of the first input model that has it.
C10_SeparateFirstWins ==
  (MergeReturned /\ ~opts.unified) =>
    \A m \in 1..Len(canonicalModels) : \A k \in 1..Len(canonicalModels[m].services) :
      LET name == canonicalModels[m].services[k].name
          at == {x \in 1..Len(mergedCanonical.services) :
                   mergedCanonical.services[x].name = name}
      IN  /\ Cardinality(at) = 1
          /\ \A x \in at :
               mergedCanonical.services[x] = FirstOccurrence(canonicalModels, name)

\* two input models give the same name different upstreams; the first one's is kept
C10_Witness ==
  /\ MergeReturned /\ ~opts.unified /\ Len(canonicalModels) = 2
  /\ \E a \in 1..Len(canonicalModels[1].services) :
     \E b \in 1..Len(canonicalModels[2].services) :
       /\ canonicalModels[1].services[a].name = canonicalModels[2].services[b].name
       /\ canonicalModels[1].services[a].upstreamUrl # canonicalModels[2].services[b].upstreamUrl
       /\ canonicalModels[1].services[a].description # canonicalModels[2].services[b].description
       /\ \E x \in 1..Len(mergedCanonical.services) :
            mergedCanonical.services[x] = canonicalModels[1].services[a]

\* --------------------------------------------------------------- C11
\* the routes of the input models, appended in input order
RECURSIVE AllInputRoutes(_)
AllInputRoutes(models) ==
  IF models = <<>> THEN <<>>
  ELSE Head(models).routes \o AllInputRoutes(Tail(models))

\* the sum of the input models' route counts
RECURSIVE RouteCountSum(_)
RouteCountSum(models) ==
  IF models = <<>> THEN 0
  ELSE Len(Head(models).routes) + RouteCountSum(Tail(models))

\* C11: the separate merge returns, as its routes, the input models' route
\* sequences appended in input order: the merged count is the sum of the input
\* counts and the i-th merged route is the i-th input route, unaltered.
C11_SeparateConcatenatesRoutes ==
  (MergeReturned /\ ~opts.unified) =>
    /\ Len(mergedCanonical.routes) = RouteCountSum(canonicalModels)
    /\ mergedCanonical.routes = AllInputRoutes(canonicalModels)

\* the second model's service was deduplicated away and its routes were kept
C11_Witness ==
  /\ MergeReturned /\ ~opts.unified /\ Len(canonicalModels) = 2
  /\ Len(canonicalModels[1].routes) > 0
  /\ \E k \in 1..Len(canonicalModels[2].services) :
       /\ HasService(canonicalModels[1].services, canonicalModels[2].services[k].name)
       /\ canonicalModels[2].services[k]
            # GetService(canonicalModels[1].services, canonicalModels[2].services[k].name)
       /\ \E n \in 1..Len(canonicalModels[2].routes) :
            /\ canonicalModels[2].routes[n].serviceId = canonicalModels[2].services[k].id
            /\ mergedCanonical.routes[Len(canonicalModels[1].routes) + n]
                 = canonicalModels[2].routes[n]

\* --------------------------------------------------------------- C12
\* C12: the unified merge of a non-empty input returns exactly one service,
\* unified-gateway with id svc-unified-gateway; the i-th merged route is the
\* i-th input route (same path, methods and original plugins) with serviceId
\* set to that id, so every input route appears once, in input order.
C12_UnifiedSingleService ==
  (MergeReturned /\ opts.unified) =>
    LET input == AllInputRoutes(canonicalModels)
    IN  /\ Len(mergedCanonical.services) = 1
        /\ mergedCanonical.services[1].name = <<"unified", "-", "gateway">>
        /\ mergedCanonical.services[1].id = <<"svc-", "unified", "-", "gateway">>
        /\ Len(mergedCanonical.routes) = Len(input)
        /\ \A i \in 1..Len(input) :
             LET r == mergedCanonical.routes[i]
             IN  /\ r.serviceId = <<"svc-", "unified", "-", "gateway">>
                 /\ r.path = input[i].path
                 /\ r.methods = input[i].methods
                 /\ \A k \in DOMAIN input[i].plugins :
                      k \in DOMAIN r.plugins /\ r.plugins[k] = input[i].plugins[k]

\* two models with routes of different original services, merged into one service
C12_Witness ==
  /\ MergeReturned /\ opts.unified /\ Len(canonicalModels) = 2
  /\ Len(canonicalModels[1].routes) > 0 /\ Len(canonicalModels[2].routes) > 1
  /\ Len(OriginalServices(canonicalModels)) > 2
  /\ Len(mergedCanonical.services) = 1
  /\ Len(mergedCanonical.routes)
       = Len(canonicalModels[1].routes) + Len(canonicalModels[2].routes)

\* --------------------------------------------------------------- C13
\* the set of the names in a sequence of names
NameSet(names) == {names[i] : i \in 1..Len(names)}

\* the service names of the input models
InputServiceNames(models) ==
  UNION {{models[m].services[k].name : k \in 1..Len(models[m].services)}
         : m \in 1..Len(models)}

\* C13: after a unified merge the names in metadata.originalServices are
\* exactly the service names of the input models, and the originalServiceName
\* of every merged route is one of them.
C13_UnifiedTraceability ==
  (MergeReturned /\ opts.unified) =>
    /\ NameSet(mergedCanonical.metadata.originalServices)
         = InputServiceNames(canonicalModels)
    /\ \A i \in 1..Len(mergedCanonical.routes) :
         Routing(mergedCanonical.routes[i]).originalServiceName
           \in NameSet(mergedCanonical.metadata.originalServices)

\* routes of two different original services, each traced to a recorded name
C13_Witness ==
  /\ MergeReturned /\ opts.unified /\ Len(canonicalModels) = 2
  /\ Cardinality(NameSet(mergedCanonical.metadata.originalServices)) > 1
  /\ \E i, j \in 1..Len(mergedCanonical.routes) :
       /\ Routing(mergedCanonical.routes[i]).originalServiceName
            # Routing(mergedCanonical.routes[j]).originalServiceName
       /\ Routing(mergedCanonical.routes[i]).originalServiceName
            \in InputServiceNames(<<canonicalModels[1]>>)
       /\ Routing(mergedCanonical.routes[j]).originalServiceName
            \in InputServiceNames(<<canonicalModels[2]>>)

\* --------------------------------------------------------------- C14
\* the service of model m under whose name the mapper grouped the route:
\* the one named by the six rules for the route's path in document m
OwnerOf(m, route) ==
  LET j == CHOOSE x \in 1..Len(apis[m].paths) : apis[m].paths[x].path = route.path
  IN  GetService(canonicalModels[m].services, C6_Expected(apis[m], j))

\* the place, in the merged routes, of route n of input model m
MergedIndex(m, n) == RouteCountSum(SubSeq(canonicalModels, 1, m - 1)) + n

\* C14: after a unified merge the upstream-routing plugin of every route holds
\* the name and the upstreamUrl of the service that owns the route in its own
\* input model, whatever the other input models contain.
C14_UnifiedCapturesOwner ==
  (MergeReturned /\ opts.unified) =>
    \A m \in 1..Len(canonicalModels) : \A n \in 1..Len(canonicalModels[m].routes) :
      LET owner == OwnerOf(m, canonicalModels[m].routes[n])
          routing == Routing(mergedCanonical.routes[MergedIndex(m, n)])
      IN  /\ routing.originalServiceName = owner.name
          /\ FirstPresent(<<routing.upstreamUrl>>) = FirstPresent(<<owner.upstreamUrl>>)

\* --------------------------------------------------------------- C15
\* the upstreams the input models give to the services named name
InputUpstreamsOf(models, name) ==
  UNION {{models[m].services[k].upstreamUrl :
            k \in {x \in 1..Len(models[m].services) : models[m].services[x].name = name}}
         : m \in 1..Len(models)}

RouteIds(routes) == {routes[i].id : i \in 1..Len(routes)}

\* every id a route has in separate mode: the ids the mapper gives to the
\* routes of any document of any loader, under any service map
SeparateModeIds ==
  UNION {RouteIds(mapOpenApiToCanonical(doc, sm).value.routes)
         : doc \in Loaded("parser") \cup Loaded("stub") \cup Loaded("fixtures"),
           sm \in ServiceMaps}

\* C16: the unified merge gives the i-th route the id of the i-th input route
\* followed by -unified, so equal original ids give equal unified ids, and no
\* unified id is an id a route has in separate mode.
C16_UnifiedIdSuffix ==
  (MergeReturned /\ opts.unified) =>
    LET input == AllInputRoutes(canonicalModels)
    IN  /\ Len(mergedCanonical.routes) = Len(input)
        /\ \A i \in 1..Len(input) :
             /\ mergedCanonical.routes[i].id = input[i].id \o <<"-unified">>
             /\ mergedCanonical.routes[i].id \notin SeparateModeIds
             /\ \A j \in 1..Len(input) :
                  input[i].id = input[j].id
                    <=> mergedCanonical.routes[i].id = mergedCanonical.routes[j].id

\* the same route came in twice and, next to it, a different one
C16_Witness ==
  /\ MergeReturned /\ opts.unified /\ Len(canonicalModels) = 2
  /\ \E i, j, k \in 1..Len(mergedCanonical.routes) :
       LET input == AllInputRoutes(canonicalModels)
       IN  /\ i < j
           /\ input[i].id = input[j].id
           /\ input[i].id # input[k].id
           /\ input[i].id \in SeparateModeIds
           /\ mergedCanonical.routes[i].id = mergedCanonical.routes[j].id
           /\ mergedCanonical.routes[i].id # mergedCanonical.routes[k].id
           /\ mergedCanonical.routes[i].id # input[i].id

DistinctNames(model) ==
  \A a, b \in 1..Len(model.services) :
    model.services[a].name = model.services[b].name => a = b

\* C18: service names are pairwise distinct in every model the mapper
\* returned and in the model either merge returned.
C18_ServiceNamesDistinct ==
  /\ \A i \in 1..Len(canonicalModels) : DistinctNames(canonicalModels[i])
  /\ MergeReturned => DistinctNames(mergedCanonical)

\* two paths of one document share a service, two models share a name, and
\* the separate merge still returned several services
C18_Witness ==
  /\ MergeReturned /\ ~opts.unified /\ Len(canonicalModels) = 2
  /\ Len(mergedCanonical.services) > 1
  /\ \E a \in 1..Len(canonicalModels[1].services) :
       HasService(canonicalModels[2].services, canonicalModels[1].services[a].name)
  /\ \E i \in 1..2 :
       Len(apis[i].paths) > Len(canonicalModels[i].services)

\* --------------------------------------------------------------- C19
\* the services of the model whose id is id
ServicesWithId(model, id) ==
  {k \in 1..Len(model.services) : model.services[k].id = id}

\* C19: in every model the mapper returned, each route's serviceId is the id
\* of exactly one service of the model, which is the service the route was
\* grouped under, and services of different names have different ids; in the
\* merged model each route's serviceId is the id of exactly one service.
C19_ReferentialIntegrity ==
  /\ \A m \in 1..Len(canonicalModels) :
       LET model == canonicalModels[m]
       IN  /\ \A n \in 1..Len(model.routes) :
                /\ Cardinality(ServicesWithId(model, model.routes[n].serviceId)) = 1
                /\ \A k \in ServicesWithId(model, model.routes[n].serviceId) :
                     model.services[k] = OwnerOf(m, model.routes[n])
           /\ \A a, b \in 1..Len(model.services) :
                model.services[a].name # model.services[b].name
                  => model.services[a].id # model.services[b].id
  /\ MergeReturned =>
       \A n \in 1..Len(mergedCanonical.routes) :
         Cardinality(ServicesWithId(mergedCanonical, mergedCanonical.routes[n].serviceId)) = 1

\* --------------------------------------------------------------- C20
\* the HTTP verb set, each verb with its upper-case spelling
VerbUpper ==
  ("get" :> "GET") @@ ("post" :> "POST") @@ ("put" :> "PUT") @@ ("patch" :> "PATCH")
  @@ ("delete" :> "DELETE") @@ ("options" :> "OPTIONS") @@ ("head" :> "HEAD")

\* the key is one of the verbs, in any letter case
MatchesVerb(key) == Len(key) = 1 /\ LowerTok(key[1]) \in DOMAIN VerbUpper

\* the keys of a path item that are verbs, in key order
VerbKeysOf(item) ==
  LET es == SelectSeq(item.entries, LAMBDA e : MatchesVerb(e.key))
  IN  [k \in 1..Len(es) |-> es[k].key]

\* the number of verb keys of paths 1..j of a document
RECURSIVE VerbKeyCount(_, _)
VerbKeyCount(api, j) ==
  IF j = 0 THEN 0
  ELSE VerbKeyCount(api, j - 1) + Len(VerbKeysOf(api.paths[j].item))

\* C20: the routes of a mapped model are, path by path and key by key, one
\* route per verb key of the path item (any letter case) and none for another
\* key; each carries the path template unchanged and the one method that is
\* the upper-cased verb.
C20_RoutePerVerbKey ==
  \A i \in 1..Len(canonicalModels) :
    LET api == apis[i]
        model == canonicalModels[i]
    IN  /\ Len(model.routes) = VerbKeyCount(api, Len(api.paths))
        /\ \A j \in 1..Len(api.paths) :
             LET keys == VerbKeysOf(api.paths[j].item)
             IN  \A k \in 1..Len(keys) :
                   LET r == model.routes[VerbKeyCount(api, j - 1) + k]
                   IN  /\ r.path = api.paths[j].path
                       /\ r.methods = <<<<VerbUpper[LowerTok(keys[k][1])]>>>>

\* a path item with a mixed-case verb key next to another verb key, in a
\* document that also has a key that is no verb: two routes share the path
C20_Witness ==
  \E i \in 1..Len(canonicalModels) :
    /\ \E j \in 1..Len(apis[i].paths) :
         /\ \E e \in 1..Len(apis[i].paths[j].item.entries) :
              apis[i].paths[j].item.entries[e].key = <<"Post">>
         /\ \E a, b \in 1..Len(canonicalModels[i].routes) :
              /\ a # b
              /\ canonicalModels[i].routes[a].path = apis[i].paths[j].path
              /\ canonicalModels[i].routes[b].path = apis[i].paths[j].path
              /\ canonicalModels[i].routes[a].methods = <<<<"GET">>>>
              /\ canonicalModels[i].routes[b].methods = <<<<"POST">>>>
    /\ \E j \in 1..Len(apis[i].paths) :
         \E e \in 1..Len(apis[i].paths[j].item.entries) :
           apis[i].paths[j].item.entries[e].key = <<"parameters">>
    /\ Len(canonicalModels[i].routes) = 4

\* --------------------------------------------------------------- C21
\* the operations of a path item, in key order
VerbOpsOf(item) ==
  LET es == SelectSeq(item.entries, LAMBDA e : MatchesVerb(e.key))
  IN  [k \in 1..Len(es) |-> es[k].op]

\* the route the mapper made of operation k of path j of document i
RouteOfOp(i, j, k) == canonicalModels[i].routes[VerbKeyCount(apis[i], j - 1) + k]

\* the auth plugins an operation is to get when the http schemes in bearer
\* are the ones taken for a bearer token
AuthPluginsFor(api, op, bearer) ==
  IF op.security = <<>> THEN {}
  ELSE LET name == op.security[1][1]
       IN  IF name \notin DOMAIN api.securitySchemes THEN {}
           ELSE LET scheme == api.securitySchemes[name]
                IN  IF scheme.type = "apiKey" THEN {"key-auth"}
                    ELSE IF scheme.type = "http" /\ scheme.scheme \in bearer THEN {"jwt"}
                    ELSE IF scheme.type \in {"oauth2", "openIdConnect"} THEN {"jwt"}
                    ELSE {}

\* every route has exactly the auth plugins AuthPluginsFor gives its
\* operation, with an empty payload, and every document was mapped
SecurityAnnotated(bearer) ==
  /\ Len(canonicalModels) = Len(apis)
  /\ \A i \in 1..Len(canonicalModels) : \A j \in 1..Len(apis[i].paths) :
       LET ops == VerbOpsOf(apis[i].paths[j].item)
       IN  \A k \in 1..Len(ops) :
             LET plugins == RouteOfOp(i, j, k).plugins
             IN  /\ DOMAIN plugins \cap {"key-auth", "jwt"}
                      = AuthPluginsFor(apis[i], ops[k], bearer)
                 /\ \A p \in DOMAIN plugins \cap {"key-auth", "jwt"} :
                      plugins[p] = EmptyObj

\* C21 as stated: apiKey gives exactly key-auth, http with scheme bearer and
\* oauth2/openIdConnect give exactly jwt, and any other type or scheme, an
\* undefined name or no requirement gives no auth plugin and no error.
C21_SecurityAnnotationAsStated == SecurityAnnotated({"bearer"})

\* C21: as above, with the http schemes bearer and bearerAuth both giving jwt.
C21_SecurityAnnotation == SecurityAnnotated({"bearer", "bearerAuth"})

\* one document with an http/bearerAuth operation annotated jwt, an
\* http/basic operation and an operation without requirement left bare
C21_Witness ==
  \E i \in 1..Len(canonicalModels) :
    /\ \E j \in 1..Len(apis[i].paths) :
         \E k \in 1..Len(VerbOpsOf(apis[i].paths[j].item)) :
           /\ VerbOpsOf(apis[i].paths[j].item)[k].security = <<<<<<"ba">>>>>>
           /\ "jwt" \in DOMAIN RouteOfOp(i, j, k).plugins
    /\ \E j \in 1..Len(apis[i].paths) :
         \E k, n \in 1..Len(VerbOpsOf(apis[i].paths[j].item)) :
           /\ VerbOpsOf(apis[i].paths[j].item)[k].security = <<<<<<"basic">>>>>>
           /\ RouteOfOp(i, j, k).plugins = EmptyObj
           /\ VerbOpsOf(apis[i].paths[j].item)[n].security = <<>>
           /\ RouteOfOp(i, j, n).plugins = EmptyObj

\* --------------------------------------------------------------- C22
\* every route entry of a context, whatever service it is listed under
ContextEntries(ctx) ==
  UNION {{ctx.services[n].routes[x] : x \in 1..Len(ctx.services[n].routes)}
         : n \in DOMAIN ctx.services}

\* C22: a route has a rate-limiting plugin exactly when its operation carries
\* an x-rate-limit extension, with the extension's payload; the merged route
\* and its context entry carry the same payload.
C22_RateLimitVerbatim ==
  /\ \A i \in 1..Len(canonicalModels) : \A j \in 1..Len(apis[i].paths) :
       LET ops == VerbOpsOf(apis[i].paths[j].item)
       IN  \A k \in 1..Len(ops) :
             LET plugins == RouteOfOp(i, j, k).plugins
             IN  /\ "rate-limiting" \in DOMAIN plugins <=> ops[k].rateLimit # Undefined
                 /\ "rate-limiting" \in DOMAIN plugins
                      => plugins["rate-limiting"] = ops[k].rateLimit
  /\ MergeReturned =>
       LET input == AllInputRoutes(canonicalModels)
       IN  \A n \in 1..Len(input) :
             LET r == mergedCanonical.routes[n]
             IN  /\ "rate-limiting" \in DOMAIN r.plugins
                      <=> "rate-limiting" \in DOMAIN input[n].plugins
                 /\ "rate-limiting" \in DOMAIN r.plugins =>
                      /\ r.plugins["rate-limiting"] = input[n].plugins["rate-limiting"]
                      /\ Built =>
                           \E e \in ContextEntries(context) :
                             /\ e.id = r.id
                             /\ "rate-limiting" \in DOMAIN e.plugins
                             /\ e.plugins["rate-limiting"] = r.plugins["rate-limiting"]

\* --------------------------------------------------------------- C23
\* the first declared server URL of a document, if it declares a server
FirstServerUrl(api) == IF Len(api.servers) > 0 THEN api.servers[1] ELSE Undefined

\* C23: every service of a mapped model has as upstreamUrl the service-map
\* entry for its name if one is present, else the first declared server URL,
\* else the empty string, however many paths of the document it groups.
C23_UpstreamSeeding ==
  \A i \in 1..Len(canonicalModels) : \A k \in 1..Len(canonicalModels[i].services) :
    LET svc == canonicalModels[i].services[k]
        seed == FirstPresent(<<Lookup(mapOpts.serviceMap, svc.name), FirstServerUrl(apis[i])>>)
    IN  svc.upstreamUrl = IF seed = Undefined THEN <<>> ELSE seed

\* a service seeded from the service map although the document declares a
\* server, in a document whose two paths are grouped under it
C23_Witness ==
  \E i \in 1..Len(canonicalModels) :
    /\ Len(apis[i].paths) = 2 /\ Len(canonicalModels[i].services) = 1
    /\ FirstPresent(<<FirstServerUrl(apis[i])>>) # Undefined
    /\ FirstPresent(<<Lookup(mapOpts.serviceMap, canonicalModels[i].services[1].name)>>)
         # Undefined
    /\ canonicalModels[i].services[1].upstreamUrl # FirstServerUrl(apis[i])
    /\ canonicalModels[i].services[1].upstreamUrl
         = mapOpts.serviceMap[canonicalModels[i].services[1].name]

\* --------------------------------------------------------------- C24
\* C24: a built context has one services entry per service name of the merged
\* model; in separate mode each entry's upstream is present and is what the
\* resolution order gives the service, and no route entry carries an upstream;
\* in unified mode the one entry's upstream is the placeholder and every route
\* entry carries a present upstream, the one the resolution order gives it.
C24_OutputShaping ==
  Built =>
    /\ DOMAIN context.services
         = {mergedCanonical.services[k].name : k \in 1..Len(mergedCanonical.services)}
    /\ ~opts.unified =>
         /\ \A k \in 1..Len(mergedCanonical.services) :
              LET svc == mergedCanonical.services[k]
                  upstream == context.services[svc.name].upstream
              IN  /\ upstream # Undefined /\ Len(upstream) > 0
                  /\ upstream = FirstPresent(<<MapEntry(svc.name), opts.cliUpstream,
                                               svc.upstreamUrl>>)
         /\ \A e \in ContextEntries(context) : e.upstream = Undefined
    /\ opts.unified =>
         /\ DOMAIN context.services = {UnifiedName}
         /\ context.services[UnifiedName].upstream = <<"unified">>
         /\ Len(context.services[UnifiedName].routes) = Len(mergedCanonical.routes)
         /\ \A x \in 1..Len(mergedCanonical.routes) :
              LET e == context.services[UnifiedName].routes[x]
                  routing == Routing(mergedCanonical.routes[x])
              IN  /\ e.upstream # Undefined /\ Len(e.upstream) > 0
                  /\ e.upstream = FirstPresent(<<MapEntry(routing.originalServiceName),
                                                 opts.cliUpstream, routing.upstreamUrl>>)

\* a separate context with two service entries of different upstreams whose
\* route entries carry none
C24_Witness ==
  /\ Built /\ ~opts.unified
  /\ \E a, b \in DOMAIN context.services :
       /\ context.services[a].upstream # context.services[b].upstream
       /\ Len(context.services[a].routes) > 0 /\ Len(context.services[b].routes) > 0
  /\ \A e \in ContextEntries(context) : e.upstream = Undefined

\* --------------------------------------------------------------- C25
\* C25: when a path item declares x-service P and one of its operations
\* declares x-service Q different from P, the route of that operation belongs
\* to service Q and the routes of the path's other operations belong to P.
C25_OperationOverridesPath ==
  \A i \in 1..Len(canonicalModels) : \A j \in 1..Len(apis[i].paths) :
    LET item == apis[i].paths[j].item
        ops == VerbOpsOf(item)
        P == item.xService
    IN  FirstPresent(<<P>>) # Undefined =>
          \A k \in 1..Len(ops) :
            LET Q == ops[k].xService
            IN  IF FirstPresent(<<Q>>) # Undefined /\ Q # P
                THEN /\ HasService(canonicalModels[i].services, Q)
                     /\ RouteOfOp(i, j, k).serviceId = <<"svc-">> \o slug(Q)
                ELSE RouteOfOp(i, j, k).serviceId = <<"svc-">> \o slug(P)

\* --------------------------------------------------------------- C26
\* every spec was parsed and mapped, in input order, the models were merged
\* and the context was built, all without error
AllStepsBeforeGuardDone ==
  /\ Len(apis) = opts.specCount /\ Len(canonicalModels) = opts.specCount
  /\ \A i \in 1..opts.specCount :
       canonicalModels[i] = mapOpenApiToCanonical(apis[i], mapOpts.serviceMap).value
  /\ MergeFor(opts.unified, canonicalModels).ok
  /\ mergedCanonical = MergeFor(opts.unified, canonicalModels).value
  /\ buildTerraformContext(mergedCanonical, opts).ok
  /\ context = buildTerraformContext(mergedCanonical, opts).value

\* C26: the output directory is created only after every earlier step
\* succeeded and the overwrite guard passed, files are rendered only into a
\* created directory, and a run that failed on a spec, on the merge, on the
\* build or on the guard has left the directory untouched and rendered nothing.
C26_Ordering ==
  /\ outDir = "ensured" =>
       /\ AllStepsBeforeGuardDone
       /\ pc \in {"templates", "render", "done"}
       /\ error = NoError
  /\ rendered # <<>> => outDir = "ensured" /\ pc = "done" /\ rendered = <<context>>
  /\ pc \in {"parse", "build", "guard"} => outDir = "untouched" /\ rendered = <<>>
  /\ pc = "failed" =>
       /\ error.kind \in {"SpecParse", "NoCanonicalModels", "NoUpstreamForService",
                          "NoUpstreamForRoute", "OutDirExists"}
       /\ outDir = "untouched" /\ rendered = <<>>

\* two specs were mapped, merged and built, and the guard stopped the run
C26_Witness ==
  /\ pc = "failed" /\ error.kind = "OutDirExists"
  /\ opts.specCount = 2 /\ AllStepsBeforeGuardDone
  /\ Len(mergedCanonical.routes) > 0
  /\ outDir = "untouched" /\ rendered = <<>>

\* --------------------------------------------------------------- C27
\* clone has the fields of orig, its path, its methods and its plugin
\* entries, and one more plugin key, upstream-routing
UnifiedCloneOf(orig, clone) ==
  /\ DOMAIN clone = DOMAIN orig
  /\ clone.path = orig.path /\ clone.methods = orig.methods
  /\ "upstream-routing" \notin DOMAIN orig.plugins
  /\ DOMAIN clone.plugins = DOMAIN orig.plugins \cup {"upstream-routing"}
  /\ \A k \in DOMAIN orig.plugins : clone.plugins[k] = orig.plugins[k]

\* the merge step and the build step, as steps of the run
MergeStep == pc = "parse" /\ pc' = "build"
BuildStep == pc = "build" /\ pc' \in {"guard", "failed"}

\* C27: a unified merge step yields, route by route, a clone that differs from
\* the original only in id, serviceId and the added upstream-routing key, a
\* separate merge step yields the routes themselves; neither merge step nor
\* the build step changes the models passed in, and the build step does not
\* change the merged model.
C27_FrameOfMergeAndBuild ==
  [][ /\ MergeStep =>
           LET input == AllInputRoutes(canonicalModels)
           IN  /\ canonicalModels' = canonicalModels
               /\ Len(mergedCanonical'.routes) = Len(input)
               /\ \A n \in 1..Len(input) :
                    IF opts.unified
                    THEN UnifiedCloneOf(input[n], mergedCanonical'.routes[n])
                    ELSE mergedCanonical'.routes[n] = input[n]
      /\ BuildStep =>
           /\ canonicalModels' = canonicalModels
           /\ mergedCanonical' = mergedCanonical ]_vars

\* a context was built from a unified merge of two models one of whose
\* routes carries plugins of its own
C27_Witness ==
  /\ pc = "guard" /\ opts.unified /\ Len(canonicalModels) = 2
  /\ \E n \in 1..Len(mergedCanonical.routes) :
       /\ Cardinality(DOMAIN mergedCanonical.routes[n].plugins) = 3
       /\ UnifiedCloneOf(AllInputRoutes(canonicalModels)[n], mergedCanonical.routes[n])
       /\ mergedCanonical.routes[n].serviceId
            # AllInputRoutes(canonicalModels)[n].serviceId

\* --------------------------------------------------------------- C28
\* no two places of the sequence hold routes (or route entries) of one id
DistinctIds(routes) ==
  \A a, b \in 1..Len(routes) : routes[a].id = routes[b].id => a = b

\* C28: with the digest injective on (service name, path, method), the route
\* ids of every merged model are pairwise distinct, in both modes, and so are
\* the ids of the route entries listed under each service of a context.
C28_RouteIdsDistinct ==
  /\ MergeReturned => DistinctIds(mergedCanonical.routes)
  /\ Built => \A name \in DOMAIN context.services :
                DistinctIds(context.services[name].routes)

\* --------------------------------------------------------------- C29
\* the upstream a route entry of the unified context carries, and the
\* upstream of the service entry the route is listed under in the separate
\* context, for input route n of the models
UnifiedUpstreamOf(uni, n) == uni.services[UnifiedName].routes[n].upstream

SeparateUpstreamOf(sepModel, sep, route) ==
  sep.services[SvcById(sepModel.services, route.serviceId)].upstream

\* C29: for the mapped models of a run, its service map and its global
\* upstream, whenever merge and build succeed in both modes every input route
\* gets the same resolved upstream in the unified context as in the separate one.
C29_ModeAgreement ==
  (Len(canonicalModels) = opts.specCount /\ opts.specCount > 0) =>
    LET sepModel == mergeCanonicalModels(canonicalModels).value
        uniModel == mergeCanonicalModelsUnified(canonicalModels).value
        sep == buildTerraformContext(sepModel, opts)
        uni == buildTerraformContext(uniModel, opts)
        input == AllInputRoutes(canonicalModels)
    IN  (sep.ok /\ uni.ok) =>
          \A n \in 1..Len(input) :
            UnifiedUpstreamOf(uni.value, n) = SeparateUpstreamOf(sepModel, sep.value, input[n])

\* --------------------------------------------------------------- C30
\* the name of the owning service of every input route, in input order
RECURSIVE InputOwners(_)
InputOwners(m) ==
  IF m > Len(canonicalModels) THEN <<>>
  ELSE [n \in 1..Len(canonicalModels[m].routes) |->
          OwnerOf(m, canonicalModels[m].routes[n]).name]
       \o InputOwners(m + 1)

\* the places of the merged routes whose owner is name, in order
RECURSIVE PlacesOwnedBy(_, _, _)
PlacesOwnedBy(owners, name, x) ==
  IF x > Len(owners) THEN <<>>
  ELSE (IF owners[x] = name THEN <<x>> ELSE <<>>) \o PlacesOwnedBy(owners, name, x + 1)

\* the number of route entries of a context
RECURSIVE EntryCount(_, _)
EntryCount(ctx, names) ==
  IF names = {} THEN 0
  ELSE LET n == CHOOSE x \in names : TRUE
       IN  Len(ctx.services[n].routes) + EntryCount(ctx, names \ {n})

\* C30: a built context lists every merged route once: the entries number as
\* many as the merged routes, in separate mode the entries under a service name
\* are the routes that service owned at mapping time, in order, and in unified
\* mode all routes are listed under unified-gateway, in order.
C30_NoRouteLostOrMisfiled ==
  Built =>
    /\ EntryCount(context, DOMAIN context.services) = Len(mergedCanonical.routes)
    /\ ~opts.unified =>
         \A name \in DOMAIN context.services :
           LET places == PlacesOwnedBy(InputOwners(1), name, 1)
               entries == context.services[name].routes
           IN  /\ Len(entries) = Len(places)
               /\ \A x \in 1..Len(places) :
                    entries[x].id = mergedCanonical.routes[places[x]].id
    /\ opts.unified =>
         LET entries == context.services[UnifiedName].routes
         IN  /\ Len(entries) = Len(mergedCanonical.routes)
             /\ \A x \in 1..Len(entries) : entries[x].id = mergedCanonical.routes[x].id

====
